---- MODULE Spec2Model ----
(***************************************************************************)
(* Model of the image-preparation and rectangle-packing pipeline of        *)
(* dtf-canvas-print.                                                       *)
(*                                                                         *)
(* The repository holds two revisions of the packer together with the      *)
(* caller that belongs to each:                                            *)
(*   "v2": src/unnamed/part_001 (packImages converts the gap to paddingPx  *)
(*         and hands w + paddingPx to pack), called by src/App.tsx with    *)
(*         the configuration in centimetres;                               *)
(*   "v1": src/services/packer.ts (the packer inflates by 2 * padding and  *)
(*         packImages offsets the position by padding), called by          *)
(*         src/unnamed/part_000, which converts half the gap to pixels.    *)
(* The variable `variant` selects the revision a behaviour runs.           *)
(*                                                                         *)
(* Lengths in centimetres are kept as integers in hundredths of a          *)
(* centimetre, so cm / 2.54 * dpi is (v * dpi) / 254.  Source loops are    *)
(* 0-based; sequences here are 1-based (element i of the source is i+1).   *)
(***************************************************************************)
EXTENDS Integers, Sequences, FiniteSets, TLC

VARIABLES
    variant,      \* which revision of the packer runs
    files,        \* UploadedFile[] handed to packImages (decode outcome attached)
    config,       \* CanvasConfig {widthCm, heightCm, dpi, padding, allowRotation}
    autoScaleToFit,
    shouldTrim,
    pc,           \* position of the packImages coroutine
    i,            \* loop counter of the running loop (0-based)
    items,        \* prepared items
    freeRects,    \* MaxRectsPacker.freeRects
    fit,          \* result of the last pack call while the blob url is awaited
    packed,
    failed,
    progress,     \* values passed to onProgress, as <<numerator, denominator>>
    runNo,        \* 1 for the first run, 2 for a repeated run
    rerunKind,    \* "none", "same" (identical input) or "dropped" (undecodable assets removed)
    prevResult,   \* the first run: the files it was given, the lists it returned
    other,        \* a second packImages call suspended while this one runs
    bitmap,       \* the bitmap handed to the trimmer on its own
    trimmed       \* what the trimmer returned for it, and for its own result

vars == <<variant, files, config, autoScaleToFit, shouldTrim, pc, i, items,
          freeRects, fit, packed, failed, progress, runNo, rerunKind, prevResult,
          other, bitmap, trimmed>>

(***************************************************************************)
(* Bounds of the model.                                                    *)
(***************************************************************************)
MaxAssets == 3

\* the largest width and height of a bitmap handed to the trimmer on its own
MaxSide == 3

\* the largest number of non-transparent pixels of such a bitmap
MaxSpots == 4

(***************************************************************************)
(* Program constants.                                                      *)
(***************************************************************************)
PrepBatch == 3
PackBatch == 10

Min(a, b) == IF a < b THEN a ELSE b
Max(a, b) == IF a > b THEN a ELSE b

NoFit == [ok |-> FALSE, x |-> 0, y |-> 0, rotated |-> FALSE]

(***************************************************************************)
(* Unit conversion.                                                        *)
(***************************************************************************)
\* Math.floor((cm / 2.54) * dpi), cm given in hundredths
CmToPx(cm100, dpi) == (cm100 * dpi) \div 254

\* mutant of pixelPadding: the gap is not halved
pixelPaddingWhole(cm100, dpi) == (2 * cm100 * dpi + 254) \div 508

\* Math.round(((padding / 2) / 2.54) * dpi): round half up
pixelPadding(cm100, dpi) == (2 * cm100 * dpi + 508) \div 1016

canvasWidthPx == CmToPx(config.widthCm, config.dpi)
canvasHeightPx == CmToPx(config.heightCm, config.dpi)

\* the padding in pixels the run works with
paddingPx ==
    IF variant = "v2" THEN CmToPx(config.padding, config.dpi)
    ELSE pixelPadding(config.padding, config.dpi)

(***************************************************************************)
(* Trimmer.  A bitmap is [width, height, regions]: every region is a box   *)
(* [left, top, right, bottom] (inclusive) of pixels with one alpha byte;   *)
(* a pixel outside every region has alpha 0.                               *)
(***************************************************************************)
Covers(r, x, y) == r.left <= x /\ x <= r.right /\ r.top <= y /\ y <= r.bottom

SetMin(S) == CHOOSE m \in S : \A n \in S : m <= n
SetMax(S) == CHOOSE m \in S : \A n \in S : m >= n

\* the alpha byte of pixel (x, y)
AlphaAt(img, x, y) ==
    LET a == { r.alpha : r \in { q \in img.regions : Covers(q, x, y) } }
    IN  IF a = {} THEN 0 ELSE SetMax(a)

\* the nested scan loops: the pixels whose alpha byte is non-zero
OpaquePixels(img) ==
    { c \in (0 .. img.width - 1) \X (0 .. img.height - 1) : AlphaAt(img, c[1], c[2]) # 0 }

\* the columns and the rows the scan finds such a pixel in
OpaqueColumns(img) ==
    { x \in 0 .. img.width - 1 : \E y \in 0 .. img.height - 1 : AlphaAt(img, x, y) # 0 }

OpaqueRows(img) ==
    { y \in 0 .. img.height - 1 : \E x \in 0 .. img.width - 1 : AlphaAt(img, x, y) # 0 }

\* the largest element of S, a subset of 0 .. n - 1
Largest(S, n) == CHOOSE m \in S : \A k \in m + 1 .. n - 1 : k \notin S

\* mutant of Crop: the source offset is lost, drawImage(img, 0, 0, tw, th, ...)
CropFromOrigin(img, left, top, tw, th) ==
    [width |-> tw, height |-> th,
     regions |->
        { [left |-> r.left,
           top |-> r.top,
           right |-> Min(r.right, tw - 1),
           bottom |-> Min(r.bottom, th - 1),
           alpha |-> r.alpha] :
          r \in { q \in img.regions : q.left <= tw - 1 /\ q.top <= th - 1 } }]

\* drawImage(img, left, top, tw, th, 0, 0, tw, th) onto a tw x th canvas
Crop(img, left, top, tw, th) ==
    [width |-> tw, height |-> th,
     regions |->
        { [left |-> Max(r.left, left) - left,
           top |-> Max(r.top, top) - top,
           right |-> Min(r.right, left + tw - 1) - left,
           bottom |-> Min(r.bottom, top + th - 1) - top,
           alpha |-> r.alpha] :
          r \in { q \in img.regions :
                    /\ q.left <= left + tw - 1 /\ q.right >= left
                    /\ q.top <= top + th - 1 /\ q.bottom >= top } }]

\* mutant of trimTransparent: trimmedWidth = right - left, the + 1 is lost
trimTransparentNarrow(img) ==
    LET cols == OpaqueColumns(img)
        rows == OpaqueRows(img)
    IN  IF cols = {} THEN img
        ELSE Crop(img, SetMin(cols), SetMin(rows),
                  Largest(cols, img.width) - SetMin(cols),
                  Largest(rows, img.height) - SetMin(rows) + 1)

\* left/right are the least and the greatest x, top/bottom the least and the
\* greatest y the scan sees a pixel with non-zero alpha at
trimTransparent(img) ==
    LET cols == OpaqueColumns(img)
        rows == OpaqueRows(img)
        found == cols # {}
    IN  IF ~found THEN img
        ELSE LET left == SetMin(cols)
                 right == Largest(cols, img.width)
                 top == SetMin(rows)
                 bottom == Largest(rows, img.height)
                 trimmedWidth == right - left + 1
                 trimmedHeight == bottom - top + 1
             IN  Crop(img, left, top, trimmedWidth, trimmedHeight)

(***************************************************************************)
(* MaxRectsPacker.                                                         *)
(***************************************************************************)
Rect(x, y, w, h) == [x |-> x, y |-> y, w |-> w, h |-> h]

\* mutant of NewPacker: the free list is created once and kept between runs
NewPackerStale(width, height) ==
    IF freeRects = << >> THEN << Rect(0, 0, width, height) >> ELSE freeRects

\* constructor: one free rectangle spanning the canvas
NewPacker(width, height) == << Rect(0, 0, width, height) >>

RemoveAt(s, k) == SubSeq(s, 1, k - 1) \o SubSeq(s, k + 1, Len(s))

\* the intersection test of splitFreeRects
SplitHits(used, free) ==
    /\ used.x < free.x + free.w
    /\ used.x + used.w > free.x
    /\ used.y < free.y + free.h
    /\ used.y + used.h > free.y

\* mutant of Residuals: the rectangle below the used one is not pushed
ResidualsNoBottom(used, free) ==
    (IF used.x > free.x
        THEN << Rect(free.x, free.y, used.x - free.x, free.h) >> ELSE << >>)
    \o (IF used.x + used.w < free.x + free.w
        THEN << Rect(used.x + used.w, free.y, free.x + free.w - (used.x + used.w), free.h) >>
        ELSE << >>)
    \o (IF used.y > free.y
        THEN << Rect(free.x, free.y, free.w, used.y - free.y) >> ELSE << >>)

\* mutant of Residuals: the tests are not strict, slivers of no width or height
\* are pushed
ResidualsWithEmpty(used, free) ==
    (IF used.x >= free.x
        THEN << Rect(free.x, free.y, used.x - free.x, free.h) >> ELSE << >>)
    \o (IF used.x + used.w <= free.x + free.w
        THEN << Rect(used.x + used.w, free.y, free.x + free.w - (used.x + used.w), free.h) >>
        ELSE << >>)
    \o (IF used.y >= free.y
        THEN << Rect(free.x, free.y, free.w, used.y - free.y) >> ELSE << >>)
    \o (IF used.y + used.h <= free.y + free.h
        THEN << Rect(free.x, used.y + used.h, free.w, free.y + free.h - (used.y + used.h)) >>
        ELSE << >>)

\* mutant of Residuals: the rectangles left and right of the used one are cut
\* to its height (a guillotine split), so they are no longer maximal
ResidualsGuillotine(used, free) ==
    (IF used.x > free.x
        THEN << Rect(free.x, Max(used.y, free.y), used.x - free.x,
                     Min(used.y + used.h, free.y + free.h) - Max(used.y, free.y)) >>
        ELSE << >>)
    \o (IF used.x + used.w < free.x + free.w
        THEN << Rect(used.x + used.w, Max(used.y, free.y),
                     free.x + free.w - (used.x + used.w),
                     Min(used.y + used.h, free.y + free.h) - Max(used.y, free.y)) >>
        ELSE << >>)
    \o (IF used.y > free.y
        THEN << Rect(free.x, free.y, free.w, used.y - free.y) >> ELSE << >>)
    \o (IF used.y + used.h < free.y + free.h
        THEN << Rect(free.x, used.y + used.h, free.w, free.y + free.h - (used.y + used.h)) >>
        ELSE << >>)

\* the up to four residual rectangles, in push order: left, right, top, bottom
Residuals(used, free) ==
    (IF used.x > free.x
        THEN << Rect(free.x, free.y, used.x - free.x, free.h) >> ELSE << >>)
    \o (IF used.x + used.w < free.x + free.w
        THEN << Rect(used.x + used.w, free.y, free.x + free.w - (used.x + used.w), free.h) >>
        ELSE << >>)
    \o (IF used.y > free.y
        THEN << Rect(free.x, free.y, free.w, used.y - free.y) >> ELSE << >>)
    \o (IF used.y + used.h < free.y + free.h
        THEN << Rect(free.x, used.y + used.h, free.w, free.y + free.h - (used.y + used.h)) >>
        ELSE << >>)

\* the loop of splitFreeRects from 1-based index k on; pushed rectangles are
\* appended and visited by the same loop
RECURSIVE SplitFrom(_, _, _)
SplitFrom(fr, used, k) ==
    IF k > Len(fr) THEN fr
    ELSE IF SplitHits(used, fr[k])
         THEN SplitFrom(RemoveAt(fr \o Residuals(used, fr[k]), k), used, k)
         ELSE SplitFrom(fr, used, k + 1)

\* mutant of splitFreeRects: only the first free rectangle hit is split
splitFreeRectsFirstOnly(fr, used) ==
    LET hits == { k \in 1 .. Len(fr) : SplitHits(used, fr[k]) }
    IN  IF hits = {} THEN fr
        ELSE RemoveAt(fr \o Residuals(used, fr[SetMin(hits)]), SetMin(hits))

splitFreeRects(fr, used) == SplitFrom(fr, used, 1)

\* mutant of Inside: the test of the lower edge is lost
InsideNoBottom(r2, r1) ==
    /\ r2.x >= r1.x
    /\ r2.y >= r1.y
    /\ r2.x + r2.w <= r1.x + r1.w

\* r2 lies inside r1
Inside(r2, r1) ==
    /\ r2.x >= r1.x
    /\ r2.y >= r1.y
    /\ r2.x + r2.w <= r1.x + r1.w
    /\ r2.y + r2.h <= r1.y + r1.h

\* the nested loops of pruneFreeRects at 1-based indices a (outer), b (inner)
RECURSIVE PruneFrom(_, _, _)
PruneFrom(fr, a, b) ==
    IF a > Len(fr) THEN fr
    ELSE IF b > Len(fr) THEN PruneFrom(fr, a + 1, a + 2)
    ELSE IF Inside(fr[b], fr[a]) THEN PruneFrom(RemoveAt(fr, b), a, b)
    ELSE IF Inside(fr[a], fr[b]) THEN PruneFrom(RemoveAt(fr, a), a, a + 1)
    ELSE PruneFrom(fr, a, b + 1)

\* mutant of pruneFreeRects: only rectangles inside the first one are removed
pruneFreeRectsFirstOnly(fr) ==
    IF fr = << >> THEN fr
    ELSE << fr[1] >> \o SelectSeq(Tail(fr), LAMBDA r : ~Inside(r, fr[1]))

pruneFreeRects(fr) == PruneFrom(fr, 1, 2)

\* mutant of PackScan: the unrotated test forgets the height
PackScanNoHeight(fr, w, h, allowRotation, k, best) ==
    LET rect == fr[k]
        s1 == Min(rect.w - w, rect.h - h)
        b1 == IF rect.w >= w /\ (best.idx = 0 \/ s1 < best.short)
              THEN [idx |-> k, short |-> s1, rotated |-> FALSE]
              ELSE best
        s2 == Min(rect.w - h, rect.h - w)
    IN  IF allowRotation /\ rect.w >= h /\ rect.h >= w /\ (b1.idx = 0 \/ s2 < b1.short)
        THEN [idx |-> k, short |-> s2, rotated |-> TRUE]
        ELSE b1

\* mutant of PackScan: an exact fit is not admitted
PackScanStrict(fr, w, h, allowRotation, k, best) ==
    LET rect == fr[k]
        s1 == Min(rect.w - w, rect.h - h)
        b1 == IF rect.w > w /\ rect.h > h /\ (best.idx = 0 \/ s1 < best.short)
              THEN [idx |-> k, short |-> s1, rotated |-> FALSE]
              ELSE best
        s2 == Min(rect.w - h, rect.h - w)
    IN  IF allowRotation /\ rect.w > h /\ rect.h > w /\ (b1.idx = 0 \/ s2 < b1.short)
        THEN [idx |-> k, short |-> s2, rotated |-> TRUE]
        ELSE b1

\* mutant of PackScan: the rotated orientation is tried whether or not
\* rotation is allowed
PackScanAlwaysRotate(fr, w, h, allowRotation, k, best) ==
    LET rect == fr[k]
        s1 == Min(rect.w - w, rect.h - h)
        b1 == IF rect.w >= w /\ rect.h >= h /\ (best.idx = 0 \/ s1 < best.short)
              THEN [idx |-> k, short |-> s1, rotated |-> FALSE]
              ELSE best
        s2 == Min(rect.w - h, rect.h - w)
    IN  IF rect.w >= h /\ rect.h >= w /\ (b1.idx = 0 \/ s2 < b1.short)
        THEN [idx |-> k, short |-> s2, rotated |-> TRUE]
        ELSE b1

\* one iteration of the search loop of pack (part_001): best is
\* [idx, short, rotated], idx = 0 standing for bestIndex = -1
PackScan(fr, w, h, allowRotation, k, best) ==
    LET rect == fr[k]
        s1 == Min(rect.w - w, rect.h - h)
        b1 == IF rect.w >= w /\ rect.h >= h /\ (best.idx = 0 \/ s1 < best.short)
              THEN [idx |-> k, short |-> s1, rotated |-> FALSE]
              ELSE best
        s2 == Min(rect.w - h, rect.h - w)
    IN  IF allowRotation /\ rect.w >= h /\ rect.h >= w /\ (b1.idx = 0 \/ s2 < b1.short)
        THEN [idx |-> k, short |-> s2, rotated |-> TRUE]
        ELSE b1

RECURSIVE PackSearch(_, _, _, _, _, _)
PackSearch(fr, w, h, allowRotation, k, best) ==
    IF k > Len(fr) THEN best
    ELSE PackSearch(fr, w, h, allowRotation, k + 1,
                    PackScan(fr, w, h, allowRotation, k, best))

\* MaxRectsPacker.pack of part_001: the placement (or none) and the free
\* list it leaves
pack(fr, w, h, allowRotation) ==
    LET best == PackSearch(fr, w, h, allowRotation, 1,
                           [idx |-> 0, short |-> 0, rotated |-> FALSE])
    IN  IF best.idx = 0 THEN [fit |-> NoFit, freeRects |-> fr]
        ELSE LET bestRect == fr[best.idx]
                 resW == IF best.rotated THEN h ELSE w
                 resH == IF best.rotated THEN w ELSE h
             IN  [fit |-> [ok |-> TRUE, x |-> bestRect.x, y |-> bestRect.y,
                           rotated |-> best.rotated],
                  freeRects |-> pruneFreeRects(
                      splitFreeRects(fr, Rect(bestRect.x, bestRect.y, resW, resH)))]

Abs(a) == IF a < 0 THEN -a ELSE a

\* one iteration of the search loop of pack (services/packer.ts): best is
\* [idx, short, long, rotated], idx = 0 standing for bestRect = null
SvcPackScan(fr, w, h, allowRotation, k, best) ==
    LET rect == fr[k]
        s1 == Min(Abs(rect.w - w), Abs(rect.h - h))
        l1 == Max(Abs(rect.w - w), Abs(rect.h - h))
        b1 == IF /\ rect.w >= w /\ rect.h >= h
                 /\ \/ best.idx = 0
                    \/ s1 < best.short
                    \/ (s1 = best.short /\ l1 < best.long)
              THEN [idx |-> k, short |-> s1, long |-> l1, rotated |-> FALSE]
              ELSE best
        s2 == Min(Abs(rect.w - h), Abs(rect.h - w))
        l2 == Max(Abs(rect.w - h), Abs(rect.h - w))
    IN  IF /\ allowRotation /\ rect.w >= h /\ rect.h >= w
           /\ \/ b1.idx = 0
              \/ s2 < b1.short
              \/ (s2 = b1.short /\ l2 < b1.long)
        THEN [idx |-> k, short |-> s2, long |-> l2, rotated |-> TRUE]
        ELSE b1

RECURSIVE SvcPackSearch(_, _, _, _, _, _)
SvcPackSearch(fr, w, h, allowRotation, k, best) ==
    IF k > Len(fr) THEN best
    ELSE SvcPackSearch(fr, w, h, allowRotation, k + 1,
                       SvcPackScan(fr, w, h, allowRotation, k, best))

\* MaxRectsPacker.pack of services/packer.ts; padding is the packer's field
SvcPack(fr, padding, width, height, allowRotation) ==
    LET w == width + padding * 2
        h == height + padding * 2
        best == SvcPackSearch(fr, w, h, allowRotation, 1,
                              [idx |-> 0, short |-> 0, long |-> 0, rotated |-> FALSE])
    IN  IF best.idx = 0 THEN [fit |-> NoFit, freeRects |-> fr]
        ELSE LET bestRect == fr[best.idx]
                 finalW == IF best.rotated THEN h ELSE w
                 finalH == IF best.rotated THEN w ELSE h
             IN  [fit |-> [ok |-> TRUE, x |-> bestRect.x, y |-> bestRect.y,
                           rotated |-> best.rotated],
                  freeRects |-> pruneFreeRects(
                      splitFreeRects(fr, Rect(bestRect.x, bestRect.y, finalW, finalH)))]

(***************************************************************************)
(* Sorter and Scaler.                                                      *)
(***************************************************************************)
\* comparator of items.sort in part_001: longest side first, then area
SortCompare(a, b) ==
    IF Max(b.w, b.h) - Max(a.w, a.h) # 0
    THEN Max(b.w, b.h) - Max(a.w, a.h)
    ELSE (b.w * b.h) - (a.w * a.h)

\* comparator of items.sort in services/packer.ts: area only
SvcSortCompare(a, b) == (b.w * b.h) - (a.w * a.h)

Compare(a, b) == IF variant = "v2" THEN SortCompare(a, b) ELSE SvcSortCompare(a, b)

\* Array.prototype.sort is stable: x goes behind every element that does
\* not compare greater than it
InsertSorted(s, x) ==
    LET after == { k \in 1 .. Len(s) : Compare(s[k], x) > 0 }
        pos == IF after = {} THEN Len(s) + 1 ELSE SetMin(after)
    IN  SubSeq(s, 1, pos - 1) \o << x >> \o SubSeq(s, pos, Len(s))

RECURSIVE SortItems(_)
SortItems(s) ==
    IF s = << >> THEN << >>
    ELSE InsertSorted(SortItems(SubSeq(s, 1, Len(s) - 1)), s[Len(s)])

\* mutant of ScaleToFit: the bound forgets the padding
ScaleToFitNoPad(w, h) ==
    LET maxAllowedW == canvasWidthPx
    IN  IF autoScaleToFit /\ Min(w, h) > maxAllowedW
        THEN [w |-> (w * maxAllowedW) \div Min(w, h),
              h |-> (h * maxAllowedW) \div Min(w, h)]
        ELSE [w |-> w, h |-> h]

\* mutant of ScaleToFit: the longer side is tested and scaled to the bound
ScaleToFitByMax(w, h) ==
    LET maxAllowedW == canvasWidthPx - paddingPx
    IN  IF autoScaleToFit /\ Max(w, h) > maxAllowedW
        THEN [w |-> (w * maxAllowedW) \div Max(w, h),
              h |-> (h * maxAllowedW) \div Max(w, h)]
        ELSE [w |-> w, h |-> h]

\* auto-scale of part_001: the dimensions handed on for an item w x h
ScaleToFit(w, h) ==
    LET maxAllowedW == canvasWidthPx - paddingPx
    IN  IF autoScaleToFit /\ Min(w, h) > maxAllowedW
        THEN [w |-> (w * maxAllowedW) \div Min(w, h),
              h |-> (h * maxAllowedW) \div Min(w, h)]
        ELSE [w |-> w, h |-> h]

\* auto-scale of services/packer.ts
SvcScaleToFit(w, h) ==
    IF autoScaleToFit /\ (Min(w, h) + paddingPx * 2) > canvasWidthPx
    THEN [w |-> (w * (canvasWidthPx - paddingPx * 2)) \div Min(w, h),
          h |-> (h * (canvasWidthPx - paddingPx * 2)) \div Min(w, h)]
    ELSE [w |-> w, h |-> h]

\* the post-scale dimensions of a prepared item
Scaled(w, h) == IF variant = "v2" THEN ScaleToFit(w, h) ELSE SvcScaleToFit(w, h)

\* mutant of Offer: a pack call that finds no place drops the last free
\* rectangle
OfferDropsOnNull(fr, w, h) ==
    LET r == IF variant = "v2"
             THEN pack(fr, w + paddingPx, h + paddingPx, config.allowRotation)
             ELSE SvcPack(fr, paddingPx, w, h, config.allowRotation)
    IN  IF r.fit.ok \/ fr = << >> THEN r
        ELSE [fit |-> NoFit, freeRects |-> SubSeq(fr, 1, Len(fr) - 1)]

\* the pack call of the packing loop on the scaled dimensions
Offer(fr, w, h) ==
    IF variant = "v2"
    THEN pack(fr, w + paddingPx, h + paddingPx, config.allowRotation)
    ELSE SvcPack(fr, paddingPx, w, h, config.allowRotation)

\* files.find(f => f.id === id)
FindFile(id) == files[SetMin({ k \in 1 .. Len(files) : files[k].id = id })]

\* mutant of PackedImage: width and height are not swapped on rotation
PackedImageNoSwap(item, f) ==
    LET s == Scaled(item.w, item.h)
        off == IF variant = "v2" THEN 0 ELSE paddingPx
    IN  [id |-> item.id,
         width |-> s.w,
         height |-> s.h,
         x |-> f.x + off,
         y |-> f.y + off,
         rotated |-> f.rotated,
         originalWidth |-> item.w,
         originalHeight |-> item.h]

\* the PackedImage pushed for an item placed by f
PackedImage(item, f) ==
    LET s == Scaled(item.w, item.h)
        off == IF variant = "v2" THEN 0 ELSE paddingPx
    IN  [id |-> item.id,
         width |-> IF f.rotated THEN s.h ELSE s.w,
         height |-> IF f.rotated THEN s.w ELSE s.h,
         x |-> f.x + off,
         y |-> f.y + off,
         rotated |-> f.rotated,
         originalWidth |-> item.w,
         originalHeight |-> item.h]

FailureRecord(item) ==
    [id |-> FindFile(item.id).id,
     reason |-> IF variant = "v2" THEN "No space" ELSE "No space available"]

\* mutant of PushPacked: the record is put in front of the list (unshift)
PushPackedFront(item, f) == IF f.ok THEN << PackedImage(item, f) >> \o packed ELSE packed

\* if (fit) packed.push(...)
PushPacked(item, f) == IF f.ok THEN Append(packed, PackedImage(item, f)) ELSE packed

\* mutant of PushFailed: the else is lost and every item is reported failed
PushFailedAlways(item, f) == Append(failed, FailureRecord(item))

\* else failed.push(...)
PushFailed(item, f) == IF f.ok THEN failed ELSE Append(failed, FailureRecord(item))

\* the item resolved by img.onload
PreparedItem(f) ==
    LET source == IF shouldTrim THEN trimTransparent(f.img) ELSE f.img
    IN  [id |-> f.id, w |-> source.width, h |-> source.height]

(***************************************************************************)
(* Inputs.                                                                 *)
(***************************************************************************)
Region(l, t, r, b, alpha) == [left |-> l, top |-> t, right |-> r, bottom |-> b, alpha |-> alpha]

Opaque(w, h) == [width |-> w, height |-> h, regions |-> { Region(0, 0, w - 1, h - 1, 255) }]

Images ==
    { Opaque(3, 1), Opaque(2, 2),
      \* faint content inside a transparent frame: 3 x 3 as decoded, 2 x 1 trimmed
      [width |-> 3, height |-> 3, regions |-> { Region(1, 1, 2, 1, 8) }] }

\* what decoding an asset yields: onerror, or onload with a bitmap
Decodes ==
    { [ok |-> FALSE, img |-> Opaque(1, 1)] } \cup { [ok |-> TRUE, img |-> b] : b \in Images }

\* the asset lists of length n, ids distinct
FilesOfLen(n) ==
    { [k \in 1 .. n |-> [id |-> k, ok |-> d[k].ok, img |-> d[k].img]] :
        d \in [1 .. n -> Decodes] }

FileLists == UNION { FilesOfLen(n) : n \in 0 .. MaxAssets }

Cfg(w, h, p, dpi) == [widthCm |-> w, heightCm |-> h, padding |-> p, dpi |-> dpi]

\* canvas width, height and gap in hundredths of a centimetre; at 254 dpi one
\* hundredth is one pixel.  The last three are the degenerate ones.
Dims ==
    { Cfg(4, 4, 1, 254), Cfg(5, 4, 0, 254), Cfg(3, 5, 1, 254), Cfg(5, 3, 2, 254),
      Cfg(2, 6, 5, 254), Cfg(0, 4, 1, 254), Cfg(4, 4, -2, 254) }

Configs ==
    { [widthCm |-> d.widthCm, heightCm |-> d.heightCm, dpi |-> d.dpi,
       padding |-> d.padding, allowRotation |-> r] : d \in Dims, r \in BOOLEAN }

\* no second call is under way
NoOther ==
    [active |-> FALSE, mixed |-> FALSE, pc |-> "idle", i |-> 0, items |-> << >>, freeRects |-> << >>,
     fit |-> NoFit, packed |-> << >>, failed |-> << >>, progress |-> << >>]

\* the trimmer is not run on its own
NoTrim ==
    /\ bitmap = [width |-> 1, height |-> 1, regions |-> {}]
    /\ trimmed = << >>

InitRun ==
    /\ other = NoOther
    /\ pc = "idle"
    /\ i = 0
    /\ items = << >>
    /\ freeRects = << >>
    /\ fit = NoFit
    /\ packed = << >>
    /\ failed = << >>
    /\ progress = << >>
    /\ runNo = 1
    /\ rerunKind = "none"
    /\ prevResult = [files |-> << >>, packed |-> << >>, failed |-> << >>]

Init ==
    /\ variant \in {"v1", "v2"}
    /\ files \in FileLists
    /\ config \in Configs
    /\ autoScaleToFit \in BOOLEAN
    /\ shouldTrim \in BOOLEAN
    /\ InitRun
    /\ NoTrim

(***************************************************************************)
(* packImages, one action per stretch of code between two suspensions.     *)
(***************************************************************************)
inputs == << variant, files, config, autoScaleToFit, shouldTrim >>
rerun == << runNo, rerunKind, prevResult >>
aside == << other, bitmap, trimmed >>

\* startPacking: nothing to do without files, otherwise packImages starts
startPacking ==
    /\ pc = "idle"
    /\ Len(files) # 0
    /\ pc' = "decode"
    /\ i' = 0
    /\ items' = << >>
    /\ packed' = << >>
    /\ failed' = << >>
    /\ progress' = << >>
    /\ fit' = NoFit
    /\ UNCHANGED << inputs, freeRects, rerun, aside >>

\* where the preparation loop goes after iteration i
AfterPrepared ==
    IF variant = "v2" /\ i % PrepBatch = 0
    THEN /\ pc' = "prepYield"
         /\ UNCHANGED << i, progress >>
    ELSE /\ i' = i + 1
         /\ pc' = IF i + 1 < Len(files) THEN "decode" ELSE "sort"
         /\ progress' = IF variant = "v2" THEN progress
                        ELSE Append(progress, << (i + 1) * 3, Len(files) * 10 >>)

\* img.onload: the asset decoded
DecodeLoad ==
    /\ pc = "decode"
    /\ files[i + 1].ok
    /\ items' = Append(items, PreparedItem(files[i + 1]))
    /\ AfterPrepared
    /\ UNCHANGED << inputs, freeRects, fit, packed, failed, rerun, aside >>

\* mutant of DecodeError: onerror resolves with the empty image
DecodeErrorPush ==
    /\ pc = "decode"
    /\ ~files[i + 1].ok
    /\ items' = Append(items, [id |-> files[i + 1].id, w |-> 0, h |-> 0])
    /\ AfterPrepared
    /\ UNCHANGED << inputs, freeRects, fit, packed, failed, rerun, aside >>

\* mutant of DecodeError: no onerror handler, the promise never settles
DecodeErrorHang ==
    /\ pc = "decode"
    /\ ~files[i + 1].ok
    /\ UNCHANGED vars

\* img.onerror: the promise resolves to null and nothing is pushed
DecodeError ==
    /\ pc = "decode"
    /\ ~files[i + 1].ok
    /\ items' = items
    /\ AfterPrepared
    /\ UNCHANGED << inputs, freeRects, fit, packed, failed, rerun, aside >>

\* resumption after yieldToMain in the preparation loop (part_001)
PrepYield ==
    /\ pc = "prepYield"
    /\ progress' = Append(progress, << (i + 1) * 4, Len(files) * 10 >>)
    /\ i' = i + 1
    /\ pc' = IF i + 1 < Len(files) THEN "decode" ELSE "sort"
    /\ UNCHANGED << inputs, items, freeRects, fit, packed, failed, rerun, aside >>

\* items.sort and new MaxRectsPacker
SortAndInit ==
    /\ pc = "sort"
    /\ items' = SortItems(items)
    /\ freeRects' = NewPacker(canvasWidthPx, canvasHeightPx)
    /\ i' = 0
    /\ pc' = IF Len(items) > 0 THEN "pack" ELSE "done"
    /\ UNCHANGED << inputs, fit, packed, failed, progress, rerun, aside >>

\* mutant of AfterPacked: the share of the preparation phase is not added to the
\* value reported by the packing loop of services/packer.ts
AfterPackedNoOffset ==
    IF variant = "v2" /\ i % PackBatch = 0
    THEN /\ pc' = "packYield"
         /\ UNCHANGED << i, progress >>
    ELSE /\ i' = i + 1
         /\ pc' = IF i + 1 < Len(items) THEN "pack" ELSE "done"
         /\ progress' = IF variant = "v2" THEN progress
                        ELSE Append(progress, << (i + 1) * 7, Len(items) * 10 >>)

\* mutant of AfterPacked: part_001 yields after every item
AfterPackedYieldAlways ==
    IF variant = "v2"
    THEN /\ pc' = "packYield"
         /\ UNCHANGED << i, progress >>
    ELSE /\ i' = i + 1
         /\ pc' = IF i + 1 < Len(items) THEN "pack" ELSE "done"
         /\ progress' = Append(progress, << 3 * Len(items) + (i + 1) * 7, Len(items) * 10 >>)

\* where the packing loop goes after iteration i
AfterPacked ==
    IF variant = "v2" /\ i % PackBatch = 0
    THEN /\ pc' = "packYield"
         /\ UNCHANGED << i, progress >>
    ELSE /\ i' = i + 1
         /\ pc' = IF i + 1 < Len(items) THEN "pack" ELSE "done"
         /\ progress' = IF variant = "v2" THEN progress
                        ELSE Append(progress,
                                    << 3 * Len(items) + (i + 1) * 7, Len(items) * 10 >>)

\* one iteration of the packing loop up to its first suspension: scale,
\* pack, and record the failure or (services/packer.ts) the placement
PackOffer ==
    /\ pc = "pack"
    /\ LET item == items[i + 1]
           s == Scaled(item.w, item.h)
           r == Offer(freeRects, s.w, s.h)
       IN  /\ freeRects' = r.freeRects
           /\ IF r.fit.ok /\ variant = "v2"
              THEN /\ fit' = r.fit
                   /\ pc' = "blob"
                   /\ UNCHANGED << i, packed, failed, progress >>
              ELSE /\ fit' = NoFit
                   /\ packed' = PushPacked(item, r.fit)
                   /\ failed' = PushFailed(item, r.fit)
                   /\ AfterPacked
    /\ UNCHANGED << inputs, items, rerun, aside >>

\* canvasToBlobUrl resolved: the placement is pushed (part_001)
BlobResolved ==
    /\ pc = "blob"
    /\ packed' = PushPacked(items[i + 1], fit)
    /\ fit' = NoFit
    /\ AfterPacked
    /\ UNCHANGED << inputs, items, freeRects, failed, rerun, aside >>

\* resumption after yieldToMain in the packing loop (part_001)
PackYield ==
    /\ pc = "packYield"
    /\ progress' = Append(progress, << 4 * Len(items) + (i + 1) * 6, Len(items) * 10 >>)
    /\ i' = i + 1
    /\ pc' = IF i + 1 < Len(items) THEN "pack" ELSE "done"
    /\ UNCHANGED << inputs, items, freeRects, fit, packed, failed, rerun, aside >>

\* the user packs again: the same files, or after removing the assets that
\* did not decode
Rerun ==
    /\ pc = "done"
    /\ runNo = 1
    /\ \E kind \in {"same", "dropped"} :
         /\ kind = "dropped" => \E k \in 1 .. Len(files) : ~files[k].ok
         /\ rerunKind' = kind
         /\ files' = IF kind = "same" THEN files
                     ELSE SelectSeq(files, LAMBDA f : f.ok)
    /\ runNo' = 2
    /\ prevResult' = [files |-> files, packed |-> packed, failed |-> failed]
    /\ pc' = "idle"
    /\ UNCHANGED << variant, config, autoScaleToFit, shouldTrim, i, items,
                    freeRects, fit, packed, failed, progress, aside >>

Next ==
    \/ startPacking
    \/ DecodeLoad
    \/ DecodeError
    \/ PrepYield
    \/ SortAndInit
    \/ PackOffer
    \/ BlobResolved
    \/ PackYield
    \/ Rerun

Spec == Init /\ [][Next]_vars

(***************************************************************************)
(* The scenario canvas: 58 cm x 250 cm at 300 dpi with a gap of 1 cm.      *)
(***************************************************************************)
ScenarioImages == { Opaque(7000, 7000), Opaque(7000, 1000), Opaque(4000, 1000), Opaque(1000, 1000) }

ScenarioDecodes ==
    { [ok |-> FALSE, img |-> Opaque(1, 1)] } \cup { [ok |-> TRUE, img |-> b] : b \in ScenarioImages }

ScenarioFileLists ==
    UNION { { [k \in 1 .. n |-> [id |-> k, ok |-> d[k].ok, img |-> d[k].img]] :
                d \in [1 .. n -> ScenarioDecodes] } : n \in 0 .. MaxAssets }

InitScenario ==
    /\ variant \in {"v1", "v2"}
    /\ files \in ScenarioFileLists
    /\ config \in { [widthCm |-> 5800, heightCm |-> 25000, dpi |-> 300,
                     padding |-> 100, allowRotation |-> r] : r \in BOOLEAN }
    /\ autoScaleToFit \in BOOLEAN
    /\ shouldTrim = FALSE
    /\ InitRun
    /\ NoTrim

SpecScenario == InitScenario /\ [][Next]_vars

\* the same canvas with the trimmer on: a 1000 x 1000 square without margin,
\* and the same square inside a transparent margin
Square == Opaque(1000, 1000)
Framed == [width |-> 1002, height |-> 1001, regions |-> { Region(1, 1, 1000, 1000, 255) }]

TrimmedDecodes ==
    { [ok |-> FALSE, img |-> Opaque(1, 1)] } \cup { [ok |-> TRUE, img |-> b] : b \in { Square, Framed } }

TrimmedFileLists ==
    UNION { { [k \in 1 .. n |-> [id |-> k, ok |-> d[k].ok, img |-> d[k].img]] :
                d \in [1 .. n -> TrimmedDecodes] } : n \in 0 .. MaxAssets }

InitTrimmed ==
    /\ variant \in {"v1", "v2"}
    /\ files \in TrimmedFileLists
    /\ config \in { [widthCm |-> 5800, heightCm |-> 25000, dpi |-> 300,
                     padding |-> 100, allowRotation |-> r] : r \in BOOLEAN }
    /\ autoScaleToFit \in BOOLEAN
    /\ shouldTrim = TRUE
    /\ InitRun
    /\ NoTrim

SpecTrimmed == InitTrimmed /\ [][Next]_vars

(***************************************************************************)
(* A run whose pending steps all come: every decode reports load or error, *)
(* every timer and every promise the run awaits fires, and synchronous     *)
(* code runs on.                                                           *)
(***************************************************************************)
LiveImages == { Opaque(3, 1), Opaque(2, 2) }

LiveDecodes ==
    { [ok |-> FALSE, img |-> Opaque(1, 1)] } \cup { [ok |-> TRUE, img |-> b] : b \in LiveImages }

LiveFileLists ==
    UNION { { [k \in 1 .. n |-> [id |-> k, ok |-> d[k].ok, img |-> d[k].img]] :
                d \in [1 .. n -> LiveDecodes] } : n \in 0 .. MaxAssets }

InitLive ==
    /\ variant \in {"v1", "v2"}
    /\ files \in LiveFileLists
    /\ config \in { [widthCm |-> d.widthCm, heightCm |-> d.heightCm, dpi |-> d.dpi,
                     padding |-> d.padding, allowRotation |-> r] :
                       d \in { Cfg(4, 4, 1, 254), Cfg(5, 4, 0, 254) }, r \in BOOLEAN }
    /\ autoScaleToFit \in BOOLEAN
    /\ shouldTrim = FALSE
    /\ InitRun
    /\ NoTrim

\* what a suspended run waits for: a decode reporting load or error, the timer
\* of yieldToMain, the promise of canvasToBlobUrl
Settles ==
    \/ DecodeLoad
    \/ DecodeError
    \/ PrepYield
    \/ BlobResolved
    \/ PackYield

\* the synchronous stretches between two suspensions
RunsOn ==
    \/ SortAndInit
    \/ PackOffer

\* one call of packImages from its start to its return, with no second run
NextRun ==
    \/ startPacking
    \/ Settles
    \/ RunsOn

SpecRun == Init /\ [][NextRun]_vars

\* what the run waits for comes, and synchronous code is not left half-way (the
\* second conjunct is weak fairness of RunsOn, which is enabled exactly at "sort"
\* and at "pack")
Fairness ==
    /\ WF_vars(Settles)
    /\ ([]<>(pc \notin {"sort", "pack"})) \/ ([]<><<RunsOn>>_vars)

SpecLive == InitLive /\ [][Next]_vars /\ Fairness

(***************************************************************************)
(* Two packImages calls on the same inputs, under way at once.  One runs,  *)
(* the other is suspended; they change places where the running one awaits.*)
(***************************************************************************)
\* where a call is suspended, has not begun or has returned: at an await
Suspended == {"idle", "decode", "prepYield", "blob", "packYield", "done"}

\* the locals of the running call
Locals ==
    [pc |-> pc, i |-> i, items |-> items, freeRects |-> freeRects, fit |-> fit,
     packed |-> packed, failed |-> failed, progress |-> progress]

\* after a first call has returned, two more calls are made
StartPair ==
    /\ pc = "done"
    /\ runNo = 1
    /\ runNo' = 2
    /\ rerunKind' = "pair"
    /\ prevResult' = [files |-> files, packed |-> packed, failed |-> failed]
    /\ pc' = "idle"
    /\ other' = [NoOther EXCEPT !.active = TRUE]
    /\ UNCHANGED << inputs, i, items, freeRects, fit, packed, failed, progress,
                    bitmap, trimmed >>

\* mutant of Switch: the packer's free list is one object both calls use
SwitchSharedPacker ==
    /\ other.active
    /\ pc \in Suspended
    /\ pc' = other.pc
    /\ i' = other.i
    /\ items' = other.items
    /\ fit' = other.fit
    /\ packed' = other.packed
    /\ failed' = other.failed
    /\ progress' = other.progress
    /\ other' = [Locals EXCEPT !.freeRects = << >>] @@
                   [active |-> TRUE,
                    mixed |-> other.mixed \/ ({pc, other.pc} \cap {"idle", "done"} = {})]
    /\ UNCHANGED << inputs, rerun, freeRects, bitmap, trimmed >>

\* the running call is suspended and the event loop resumes the other one
Switch ==
    /\ other.active
    /\ pc \in Suspended
    /\ pc' = other.pc
    /\ i' = other.i
    /\ items' = other.items
    /\ freeRects' = other.freeRects
    /\ fit' = other.fit
    /\ packed' = other.packed
    /\ failed' = other.failed
    /\ progress' = other.progress
    /\ other' = Locals @@
                   [active |-> TRUE,
                    mixed |-> other.mixed \/ ({pc, other.pc} \cap {"idle", "done"} = {})]
    /\ UNCHANGED << inputs, rerun, bitmap, trimmed >>

NextPair ==
    \/ Next
    \/ StartPair
    \/ Switch

SpecPair == InitLive /\ [][NextPair]_vars

(***************************************************************************)
(* The trimmer on its own: a bitmap of at most MaxSide x MaxSide pixels,   *)
(* any MaxSpots of them non-transparent, is trimmed, and the result once   *)
(* more.                                                                   *)
(***************************************************************************)
\* the alpha bytes of the non-transparent pixels: faintest and opaque
TrimAlphas == {1, 255}

TrimBitmaps ==
    UNION { { [width |-> d[1], height |-> d[2],
               regions |-> { Region(c[1], c[2], c[1], c[2], a) : c \in S }] :
                 S \in { T \in SUBSET ((0 .. d[1] - 1) \X (0 .. d[2] - 1)) :
                            Cardinality(T) <= MaxSpots },
                 a \in TrimAlphas } :
            d \in (1 .. MaxSide) \X (1 .. MaxSide) }

InitTrim ==
    /\ variant = "v2"
    /\ files = << >>
    /\ config = [widthCm |-> 4, heightCm |-> 4, dpi |-> 254, padding |-> 1,
                 allowRotation |-> FALSE]
    /\ autoScaleToFit = FALSE
    /\ shouldTrim = TRUE
    /\ InitRun
    /\ bitmap \in TrimBitmaps
    /\ trimmed = << >>

\* trimTransparent is called on the bitmap, then on what it returned
Trim ==
    /\ Len(trimmed) < 2
    /\ trimmed' = Append(trimmed,
                         trimTransparent(IF trimmed = << >> THEN bitmap ELSE trimmed[1]))
    /\ UNCHANGED << inputs, pc, i, items, freeRects, fit, packed, failed, progress,
                    rerun, other, bitmap >>

NextTrim == Trim

SpecTrim == InitTrim /\ [][NextTrim]_vars

(***************************************************************************)
(* Properties.                                                             *)
(***************************************************************************)
Range(s) == { s[k] : k \in 1 .. Len(s) }
Ids(s) == { s[k].id : k \in 1 .. Len(s) }

\* the rectangle pack reserved for a packed item: its footprint inflated by
\* the padding, the way the run handed it to the packer
Reserved(p) ==
    IF variant = "v2"
    THEN Rect(p.x, p.y, p.width + paddingPx, p.height + paddingPx)
    ELSE Rect(p.x - paddingPx, p.y - paddingPx,
              p.width + 2 * paddingPx, p.height + 2 * paddingPx)

\* two rectangles share a point of positive area
Intersect(a, b) ==
    /\ a.w > 0 /\ a.h > 0 /\ b.w > 0 /\ b.h > 0
    /\ a.x < b.x + b.w /\ b.x < a.x + a.w
    /\ a.y < b.y + b.h /\ b.y < a.y + a.h

ConfigNonNegative == canvasWidthPx >= 0 /\ canvasHeightPx >= 0 /\ paddingPx >= 0
ConfigValid == canvasWidthPx > 0 /\ canvasHeightPx > 0 /\ paddingPx >= 0

\* a canvas of positive size with room for the margin on both sides
ConfigRoomy ==
    /\ ConfigValid
    /\ 2 * paddingPx < canvasWidthPx
    /\ 2 * paddingPx < canvasHeightPx

\* C1: the rectangles reserved for any two distinct packed items do not
\* intersect
C1_NoOverlap ==
    \A a, b \in 1 .. Len(packed) :
        a # b => ~Intersect(Reserved(packed[a]), Reserved(packed[b]))

\* a finished run on a roomy canvas that placed two items
C1_Witness ==
    /\ pc = "done"
    /\ ConfigRoomy
    /\ Len(packed) >= 2
    /\ \A k \in 1 .. Len(packed) : packed[k].width > 0 /\ packed[k].height > 0

\* C2: with non-negative canvas size and padding every packed footprint
\* lies inside the canvas
C2_Bounds ==
    ConfigNonNegative =>
        \A k \in 1 .. Len(packed) :
            /\ 0 <= packed[k].x
            /\ 0 <= packed[k].y
            /\ packed[k].x + packed[k].width <= canvasWidthPx
            /\ packed[k].y + packed[k].height <= canvasHeightPx

\* a finished run whose last placed item ends exactly at the canvas border
C2_Witness ==
    /\ pc = "done"
    /\ ConfigValid
    /\ \E k \in 1 .. Len(packed) :
          /\ packed[k].width > 0 /\ packed[k].height > 0
          /\ packed[k].x > 0
          /\ packed[k].x + packed[k].width = canvasWidthPx

\* two footprints are at least d apart horizontally or vertically
Apart(a, b, d) ==
    \/ a.x + a.width + d <= b.x
    \/ b.x + b.width + d <= a.x
    \/ a.y + a.height + d <= b.y
    \/ b.y + b.height + d <= a.y

\* C3: every packed item keeps the cutting margin on all four sides, also
\* toward the canvas borders, and toward every other packed item
C3_Margin ==
    ConfigRoomy =>
        /\ \A k \in 1 .. Len(packed) :
              /\ paddingPx <= packed[k].x
              /\ paddingPx <= packed[k].y
              /\ packed[k].x + packed[k].width + paddingPx <= canvasWidthPx
              /\ packed[k].y + packed[k].height + paddingPx <= canvasHeightPx
        /\ \A a, b \in 1 .. Len(packed) :
              a # b => Apart(packed[a], packed[b], paddingPx)

\* how often id occurs in a list of records
Count(s, id) == Cardinality({ k \in 1 .. Len(s) : s[k].id = id })

\* C4: no asset id is in both lists, the lists together are no longer than
\* the asset list, and once the run has returned every decoded asset is in
\* exactly one of them
C4_Conservation ==
    /\ Ids(packed) \cap Ids(failed) = {}
    /\ Len(packed) + Len(failed) <= Len(files)
    /\ pc = "done" =>
          \A k \in 1 .. Len(files) :
              files[k].ok => Count(packed, files[k].id) + Count(failed, files[k].id) = 1

\* a finished run with a placed, a failed and an undecodable asset
C4_Witness ==
    /\ pc = "done"
    /\ ConfigRoomy
    /\ Len(packed) >= 1
    /\ Len(failed) >= 1
    /\ \E k \in 1 .. Len(files) : ~files[k].ok

\* some free rectangle admits a w x h rectangle in a permitted orientation
Admits(fr, w, h) ==
    \E k \in 1 .. Len(fr) :
        \/ fr[k].w >= w /\ fr[k].h >= h
        \/ config.allowRotation /\ fr[k].w >= h /\ fr[k].h >= w

\* the padded rectangle of the item the packing loop is at
PaddedItem ==
    LET s == Scaled(items[i + 1].w, items[i + 1].h)
        d == IF variant = "v2" THEN paddingPx ELSE 2 * paddingPx
    IN  [w |-> s.w + d, h |-> s.h + d]

\* C5: an offered item is recorded as failed exactly when no free rectangle
\* admits its padded rectangle, otherwise it is placed; the loop goes on
\* after a failure, and the run returns only after offering every item
C5_NoSpace ==
    /\ [][pc = "pack" =>
            IF Admits(freeRects, PaddedItem.w, PaddedItem.h)
            THEN /\ failed' = failed
                 /\ \/ fit'.ok /\ pc' = "blob"
                    \/ /\ Len(packed') = Len(packed) + 1
                       /\ packed'[Len(packed')].id = items[i + 1].id
            ELSE /\ Len(failed') = Len(failed) + 1
                 /\ failed'[Len(failed')].id = items[i + 1].id
                 /\ failed'[Len(failed')].reason \in {"No space", "No space available"}
                 /\ packed' = packed
                 /\ pc' \in {"pack", "packYield", "done"}]_vars
    /\ [](pc = "done" => i = Len(items) /\ Len(packed) + Len(failed) = Len(items))

\* a finished run in which an item failed and a later item was placed
C5_Witness ==
    /\ pc = "done"
    /\ ConfigRoomy
    /\ \E a, b \in 1 .. Len(items) :
          /\ a < b
          /\ items[a].id \in Ids(failed)
          /\ items[b].id \in Ids(packed)

\* C6: with a zero or negative canvas width or height, or a negative
\* padding, the run fails before any item is offered to the packer and
\* returns no result
C6_RejectsInvalidConfig ==
    ~ConfigValid => pc \notin {"pack", "blob", "packYield", "done"}

\* C7: an asset whose decode fails is never prepared, placed or reported,
\* and the run returns what it returns without that asset in the input
C7_DecodeFailureDropped ==
    /\ \A k \in 1 .. Len(files) :
          ~files[k].ok =>
              /\ files[k].id \notin Ids(items)
              /\ files[k].id \notin Ids(packed)
              /\ files[k].id \notin Ids(failed)
    /\ (runNo = 2 /\ rerunKind = "dropped" /\ pc = "done") =>
          /\ packed = prevResult.packed
          /\ failed = prevResult.failed

\* the second run has finished on the files left after dropping an
\* undecodable asset that stood before a decodable one
C7_Witness ==
    /\ runNo = 2 /\ rerunKind = "dropped" /\ pc = "done"
    /\ ~prevResult.files[1].ok
    /\ Len(files) >= 2
    /\ Len(packed) >= 1

\* C8: a packed item that is rotated has the post-scale height and width of
\* its prepared item as width and height, one that is not has them unchanged
C8_Orientation ==
    \A k \in 1 .. Len(packed) :
        LET p == packed[k]
            s == Scaled(p.originalWidth, p.originalHeight)
        IN  IF p.rotated
            THEN p.width = s.h /\ p.height = s.w
            ELSE p.width = s.w /\ p.height = s.h

\* a rotated packed item that is not square
C8_Witness ==
    \E k \in 1 .. Len(packed) :
        /\ packed[k].rotated
        /\ packed[k].width > 0
        /\ packed[k].height > packed[k].width

\* C9: a second run on the same assets and configuration returns the same
\* packed and failed lists as the first
C9_Determinism ==
    (runNo = 2 /\ rerunKind = "same" /\ pc = "done") =>
        /\ packed = prevResult.packed
        /\ failed = prevResult.failed

\* the second run has finished and has both placed and failed items
C9_Witness ==
    /\ runNo = 2 /\ rerunKind = "same" /\ pc = "done"
    /\ ConfigRoomy
    /\ Len(packed) >= 2
    /\ Len(failed) >= 1

\* the packed record of asset id, if it is packed
PackedOf(id) == { packed[k] : k \in { j \in 1 .. Len(packed) : packed[j].id = id } }

\* asset f ended the way the scenario tells for an oversized item: scaled
\* down and placed with auto-scale, failed for lack of space without
ScaledOrFailed(f) ==
    IF autoScaleToFit
    THEN /\ PackedOf(f.id) # {}
         /\ \A p \in PackedOf(f.id) : Min(p.width, p.height) <= canvasWidthPx - paddingPx
    ELSE /\ f.id \in Ids(failed)
         /\ f.id \notin Ids(packed)

Sorted == pc \in {"pack", "blob", "packYield", "done"}

\* the place of the id in the sorted item sequence
PlaceOf(id) == SetMin({ k \in 1 .. Len(items) : items[k].id = id })

\* the ids of s occur in the sorted item sequence, in the same order
InPackingOrder(s) ==
    /\ Ids(s) \subseteq Ids(items)
    /\ \A a, b \in 1 .. Len(s) : a < b => PlaceOf(s[a].id) < PlaceOf(s[b].id)

\* C11: once the items are sorted, the ids of packed read in list order are a
\* subsequence of the ids of the sorted item sequence, and so are those of failed
C11_PackingOrder == Sorted => InPackingOrder(packed) /\ InPackingOrder(failed)

\* a finished run that placed two items one after the other in the opposite of
\* their input order
C11_Witness ==
    /\ pc = "done" /\ Len(packed) >= 2 /\ ConfigRoomy
    /\ \E a, b \in 1 .. Len(files) :
          /\ a < b
          /\ \E k \in 1 .. Len(packed) - 1 :
                packed[k].id = files[b].id /\ packed[k + 1].id = files[a].id

\* p <= q for two reported values, each a pair << numerator, denominator >>
AtMost(p, q) == p[1] * q[2] <= q[1] * p[2]

\* C12: the values handed to onProgress by one run never decrease and each lies
\* between 0 and 1
C12_ProgressMonotone ==
    /\ \A k \in 1 .. Len(progress) :
          progress[k][2] > 0 /\ 0 <= progress[k][1] /\ progress[k][1] <= progress[k][2]
    /\ \A k \in 1 .. Len(progress) - 1 : AtMost(progress[k], progress[k + 1])

\* a finished run over three assets, one of them undecodable, that reported from
\* the preparation phase and from the packing loop
C12_Witness ==
    /\ pc = "done" /\ Len(files) = 3 /\ Len(items) = 2
    /\ Len(progress) >= 2
    /\ \E k \in 1 .. Len(progress) - 1 :
          /\ progress[k][2] = Len(files) * 10
          /\ progress[k + 1][2] = Len(items) * 10
          /\ ~ AtMost(progress[k + 1], progress[k])

\* the ids of the assets that decode
Decodable == { files[k].id : k \in { j \in 1 .. Len(files) : files[j].ok } }

\* packImages has returned, every prepared item offered to the packer
Returned ==
    /\ pc = "done"
    /\ i = Len(items)
    /\ Ids(items) = Decodable
    /\ Ids(packed) \cup Ids(failed) = Decodable

\* C13: a started run whose decodes all report load or error goes on to return,
\* having offered every prepared item to the packer
C13_Termination == (pc = "decode") ~> Returned

\* a run over three assets, the second undecodable, has returned with one item
\* placed and one refused
C13_Witness ==
    /\ Returned
    /\ Len(files) = 3 /\ ~files[2].ok
    /\ Len(packed) = 1 /\ Len(failed) = 1

\* C14: two runs interleaved at their suspension points each return what the
\* run returned alone on the same inputs
C14_Independent ==
    rerunKind = "pair" =>
        /\ pc = "done" => packed = prevResult.packed /\ failed = prevResult.failed
        /\ other.pc = "done" =>
              other.packed = prevResult.packed /\ other.failed = prevResult.failed

\* both runs have returned, after changing places while both were under way,
\* with two items placed and one refused
C14_Witness ==
    /\ rerunKind = "pair" /\ pc = "done" /\ other.pc = "done" /\ other.mixed
    /\ Len(packed) = 2 /\ Len(failed) = 1
    /\ Len(other.packed) = 2 /\ Len(other.failed) = 1

\* a and b have the same dimensions and the same alpha at every pixel
SamePixels(a, b) ==
    /\ a.width = b.width
    /\ a.height = b.height
    /\ \A x \in 0 .. a.width - 1, y \in 0 .. a.height - 1 :
          AlphaAt(a, x, y) = AlphaAt(b, x, y)

\* r is the part of b between columns left and right and rows top and bottom
CropOf(r, b, left, right, top, bottom) ==
    /\ r.width = right - left + 1
    /\ r.height = bottom - top + 1
    /\ \A x \in 0 .. r.width - 1, y \in 0 .. r.height - 1 :
          AlphaAt(r, x, y) = AlphaAt(b, x + left, y + top)

C16_Idempotent == Len(trimmed) = 2 => SamePixels(trimmed[2], trimmed[1])

\* a bitmap that lost a margin to the first trim was trimmed a second time
C16_Witness ==
    /\ Len(trimmed) = 2
    /\ bitmap.width = 3 /\ bitmap.height = 3
    /\ trimmed[1].width = 2 /\ trimmed[1].height = 1
    /\ Cardinality(OpaquePixels(trimmed[1])) = 2

\* the distance the run keeps between two items
Gap == IF variant = "v2" THEN paddingPx ELSE 2 * paddingPx

\* the run was given one asset, the opaque 1000 x 1000 square, and has returned
SquareAlone ==
    /\ pc = "done"
    /\ Len(files) = 1 /\ files[1].ok /\ files[1].img = Square

\* the run placed the square alone, unscaled and upright, at (x, y)
SquareAt(x, y) ==
    /\ failed = << >>
    /\ Len(packed) = 1
    /\ packed[1].width = 1000 /\ packed[1].height = 1000
    /\ ~packed[1].rotated
    /\ packed[1].x = x /\ packed[1].y = y

\* C17 as stated: on the canvas of 58 cm x 250 cm at 300 dpi with a gap of 1 cm
\* the run works with 6850 x 29527 pixels and a gap of 118, and the square alone,
\* trimmed, is placed 1000 x 1000, upright, at (0, 0) or at (118, 118)
C17_ScenarioA ==
    /\ canvasWidthPx = 6850 /\ canvasHeightPx = 29527 /\ Gap = 118
    /\ SquareAlone => SquareAt(0, 0) \/ SquareAt(118, 118)

\* C17, amended: the square is placed at (0, 0) by part_001 and at (59, 59) by
\* services/packer.ts, whose caller hands it half the gap, 59 pixels
C17_ScenarioAHalfGap ==
    /\ canvasWidthPx = 6850 /\ canvasHeightPx = 29527 /\ Gap = 118
    /\ SquareAlone => IF variant = "v2" THEN SquareAt(0, 0) ELSE SquareAt(59, 59)

\* services/packer.ts has placed the trimmed square at (59, 59)
C17_Witness == SquareAlone /\ shouldTrim /\ variant = "v1" /\ SquareAt(59, 59)

\* the run was given two assets of 4000 x 1000, rotation disabled, and has returned
TwoStrips ==
    /\ pc = "done"
    /\ ~config.allowRotation
    /\ Len(files) = 2
    /\ \A k \in 1 .. 2 : files[k].ok /\ files[k].img = Opaque(4000, 1000)

\* C18: on the scenario canvas with rotation disabled both 4000 x 1000 items are
\* placed, the second at the x of the first and below it, not beside it
C18_ScenarioB ==
    TwoStrips =>
        /\ failed = << >>
        /\ Len(packed) = 2
        /\ packed[2].x = packed[1].x
        /\ packed[2].y > packed[1].y
        /\ packed[2].y >= packed[1].y + packed[1].height

\* the two strips are placed, the second 1118 pixels below the first
C18_Witness ==
    /\ TwoStrips
    /\ Len(packed) = 2
    /\ packed[1].width = 4000 /\ packed[2].width = 4000
    /\ packed[2].y = packed[1].y + 1118

\* the unit cells of a rectangle
Cells(r) == (r.x .. r.x + r.w - 1) \X (r.y .. r.y + r.h - 1)

\* the padded rectangles reserved so far: those of the packed items and, while
\* the preview of a placed item is awaited, the one just reserved for it
Placed ==
    { Reserved(packed[k]) : k \in 1 .. Len(packed) }
        \cup (IF fit.ok THEN { Reserved(PackedImage(items[i + 1], fit)) } ELSE {})

\* C19: the packer starts with one free rectangle, the whole canvas, and after
\* every pack call, successful or not, the free rectangles together cover the
\* canvas less the padded rectangles placed so far
C19_FreeArea ==
    /\ pc = "pack" /\ i = 0 => freeRects = << Rect(0, 0, canvasWidthPx, canvasHeightPx) >>
    /\ Sorted =>
          UNION { Cells(freeRects[k]) : k \in 1 .. Len(freeRects) }
            = Cells(Rect(0, 0, canvasWidthPx, canvasHeightPx))
                \ UNION { Cells(r) : r \in Placed }

\* two items are placed, a third was refused, and of the free rectangles left
\* two overlap
C19_Witness ==
    /\ pc = "done" /\ ConfigRoomy
    /\ Len(packed) = 2 /\ Len(failed) = 1
    /\ Len(freeRects) >= 2
    /\ \E a, b \in 1 .. Len(freeRects) : a < b /\ Intersect(freeRects[a], freeRects[b])

\* the padded size the run is about to hand to pack for the item at hand
Padded ==
    LET s == Scaled(items[i + 1].w, items[i + 1].h)
    IN  IF variant = "v2" THEN [w |-> s.w + paddingPx, h |-> s.h + paddingPx]
        ELSE [w |-> s.w + 2 * paddingPx, h |-> s.h + 2 * paddingPx]

\* the size of the padded item in the orientation of candidate c
CandW(c) == IF c.rotated THEN Padded.h ELSE Padded.w
CandH(c) == IF c.rotated THEN Padded.w ELSE Padded.h

\* the admissible candidates: a free rectangle and an orientation it holds
Candidates ==
    { c \in [k : 1 .. Len(freeRects),
             rotated : IF config.allowRotation THEN BOOLEAN ELSE {FALSE}] :
        freeRects[c.k].w >= CandW(c) /\ freeRects[c.k].h >= CandH(c) }

ShortSideFit(c) == Min(freeRects[c.k].w - CandW(c), freeRects[c.k].h - CandH(c))
LongSideFit(c) == Max(freeRects[c.k].w - CandW(c), freeRects[c.k].h - CandH(c))

\* c is a best candidate: least short-side leftover, and least long-side
\* leftover among those
BestCandidate(c) ==
    \A d \in Candidates :
        \/ ShortSideFit(c) < ShortSideFit(d)
        \/ ShortSideFit(c) = ShortSideFit(d) /\ LongSideFit(c) <= LongSideFit(d)

\* C20: when the pack call at hand succeeds, it reports the origin of a free
\* rectangle and an orientation that are a best candidate
C20_BestShortSideFit ==
    pc = "pack" =>
        LET r == Offer(freeRects, Scaled(items[i + 1].w, items[i + 1].h).w,
                       Scaled(items[i + 1].w, items[i + 1].h).h)
        IN  r.fit.ok =>
              \E c \in Candidates :
                  /\ freeRects[c.k].x = r.fit.x
                  /\ freeRects[c.k].y = r.fit.y
                  /\ c.rotated = r.fit.rotated
                  /\ BestCandidate(c)

\* a is offered before b under the order of C21: longer side first, then larger
\* area, then input order (the id of an asset is its place in the input)
OfferedBefore(a, b) ==
    \/ Max(a.w, a.h) > Max(b.w, b.h)
    \/ Max(a.w, a.h) = Max(b.w, b.h) /\ a.w * a.h > b.w * b.h
    \/ Max(a.w, a.h) = Max(b.w, b.h) /\ a.w * a.h = b.w * b.h /\ a.id < b.id

\* C21: the items are offered in descending order of max(width, height), those
\* equal on it in descending order of area, those equal on both in input order
C21_SortOrder ==
    Sorted => \A a, b \in 1 .. Len(items) : a < b => OfferedBefore(items[a], items[b])

\* the bound of C22: the canvas width less the distance kept between two items
ScaleBound == canvasWidthPx - Gap

\* s is what C22 lets the scaler hand on for an item w x h
ScaleRule(w, h, s) ==
    IF autoScaleToFit /\ Min(w, h) > ScaleBound
    THEN /\ s.w = (w * ScaleBound) \div Min(w, h)
         /\ s.h = (h * ScaleBound) \div Min(w, h)
         /\ s.w <= w /\ s.h <= h
         /\ Min(s.w, s.h) <= ScaleBound
    ELSE s.w = w /\ s.h = h

\* the dimensions of a packed item before rotation
Upright(p) ==
    IF p.rotated THEN [w |-> p.height, h |-> p.width] ELSE [w |-> p.width, h |-> p.height]

C23_NoContainment ==
    Sorted =>
        \A a, b \in 1 .. Len(freeRects) : a # b => ~Inside(freeRects[a], freeRects[b])

\* three free rectangles are left after two placements, none inside another, two
\* of them overlapping
C23_Witness ==
    /\ pc = "done" /\ ConfigRoomy
    /\ Len(packed) >= 2
    /\ Len(freeRects) >= 3
    /\ \E a, b \in 1 .. Len(freeRects) : a < b /\ Intersect(freeRects[a], freeRects[b])

\* the rectangle reserved by the last successful pack call, if any
JustPlaced ==
    IF fit.ok THEN { Reserved(PackedImage(items[i + 1], fit)) }
    ELSE IF packed # << >> THEN { Reserved(packed[Len(packed)]) }
    ELSE {}

\* C24: on a canvas of positive size every free rectangle has positive width and
\* height, lies inside the canvas and does not intersect the rectangle placed last
C24_FreeRectsSound ==
    Sorted /\ canvasWidthPx > 0 /\ canvasHeightPx > 0 =>
        \A k \in 1 .. Len(freeRects) :
            /\ freeRects[k].w > 0 /\ freeRects[k].h > 0
            /\ Inside(freeRects[k], Rect(0, 0, canvasWidthPx, canvasHeightPx))
            /\ \A r \in JustPlaced : ~Intersect(freeRects[k], r)

\* after a placement that split the canvas, two free rectangles are left beside
\* and below the rectangle placed last
C24_Witness ==
    /\ Sorted /\ ConfigRoomy
    /\ Len(freeRects) >= 2
    /\ \E r \in JustPlaced :
          /\ r.w > 0 /\ r.h > 0
          /\ \E a, b \in 1 .. Len(freeRects) :
                freeRects[a].x >= r.x + r.w /\ freeRects[b].y >= r.y + r.h

\* C25 as stated: the run is suspended only at the batch boundaries of the two
\* loops, never once per item
C25_OnlyAtBatch ==
    /\ pc \in {"decode", "prepYield"} => i % PrepBatch = 0
    /\ pc \in {"blob", "packYield"} => i % PackBatch = 0

\* C25, amended: yieldToMain suspends the run only at the batch boundaries of the
\* two loops of part_001; the preview of a placed item is awaited by part_001 only
C25_YieldAtBatch ==
    /\ pc = "prepYield" => variant = "v2" /\ i % PrepBatch = 0
    /\ pc = "packYield" => variant = "v2" /\ i % PackBatch = 0
    /\ pc = "blob" => variant = "v2" /\ fit.ok

\* the run is suspended on the preview of its second item, which is no batch
\* boundary, after yielding on the first
C25_Witness ==
    /\ pc = "blob" /\ i = 1 /\ i % PackBatch # 0
    /\ Len(packed) = 1
    /\ Len(progress) >= 2

\* a w x h rectangle has a position on the canvas at which it lies inside the
\* canvas and intersects none of the rectangles reserved so far
Feasible(w, h) ==
    \E x \in 0 .. canvasWidthPx - w, y \in 0 .. canvasHeightPx - h :
        /\ Inside(Rect(x, y, w, h), Rect(0, 0, canvasWidthPx, canvasHeightPx))
        /\ \A r \in Placed : ~Intersect(Rect(x, y, w, h), r)

\* C26: an item is refused only if its padded rectangle has, in no permitted
\* orientation, a position inside the canvas clear of every reserved
\* rectangle (a padded size that is not positive spans no rectangle and is
\* left out)
C26_NoHiddenPlacement ==
    pc = "pack" /\ Padded.w > 0 /\ Padded.h > 0 =>
        LET r == Offer(freeRects, Scaled(items[i + 1].w, items[i + 1].h).w,
                       Scaled(items[i + 1].w, items[i + 1].h).h)
        IN  ~r.fit.ok =>
              /\ ~Feasible(Padded.w, Padded.h)
              /\ config.allowRotation => ~Feasible(Padded.h, Padded.w)

\* an item is about to be refused although free rectangles remain whose cells
\* outnumber those of its padded rectangle
C26_Witness ==
    /\ pc = "pack" /\ ConfigRoomy
    /\ Len(packed) >= 1
    /\ Len(freeRects) >= 2
    /\ ~Offer(freeRects, Scaled(items[i + 1].w, items[i + 1].h).w,
              Scaled(items[i + 1].w, items[i + 1].h).h).fit.ok
    /\ Padded.w > 0 /\ Padded.h > 0
    /\ Cardinality(UNION { Cells(freeRects[k]) : k \in 1 .. Len(freeRects) })
          >= Padded.w * Padded.h

\* C27: a pack call that finds no place leaves the free list as it was, the
\* same rectangles in the same order
C27_NullKeepsFreeList ==
    [][pc = "pack" /\ Len(failed') = Len(failed) + 1 => freeRects' = freeRects]_vars

\* an item was refused while free rectangles remained, and an item offered
\* after it was placed
C27_Witness ==
    /\ pc = "done" /\ ConfigRoomy
    /\ Len(freeRects) >= 1
    /\ \E f \in 1 .. Len(failed), p \in 1 .. Len(packed) :
           PlaceOf(failed[f].id) < PlaceOf(packed[p].id)

\* C28: with rotation not allowed no packed item is rotated, and each packed
\* item has the width and the height of its prepared item after scaling
C28_NoRotation ==
    ~config.allowRotation =>
        \A k \in 1 .. Len(packed) :
            /\ ~packed[k].rotated
            /\ packed[k].width = Scaled(packed[k].originalWidth, packed[k].originalHeight).w
            /\ packed[k].height = Scaled(packed[k].originalWidth, packed[k].originalHeight).h

\* rotation is off, an item that is not square was placed as prepared and
\* another one that is not square was refused
C28_Witness ==
    /\ pc = "done" /\ ConfigRoomy /\ ~config.allowRotation
    /\ \E k \in 1 .. Len(packed) : packed[k].width # packed[k].height
    /\ \E k \in 1 .. Len(failed), j \in 1 .. Len(items) :
           items[j].id = failed[k].id /\ items[j].w # items[j].h

\* C29: when the run returns having prepared at least one asset, the last
\* value handed to onProgress is 1
C29_ProgressEndsAtOne ==
    pc = "done" /\ Len(items) >= 1 =>
        /\ progress # << >>
        /\ progress[Len(progress)][1] = progress[Len(progress)][2]

\* C30: when every prepared item is at least one pixel wide and high, so is
\* every packed item
C30_PackedPositive ==
    (\A k \in 1 .. Len(items) : items[k].w >= 1 /\ items[k].h >= 1) =>
        \A k \in 1 .. Len(packed) : packed[k].width >= 1 /\ packed[k].height >= 1

\* services/packer.ts, which reports after every item, does end at 1
ProgressEndsAtOneSvc == variant = "v1" => C29_ProgressEndsAtOne

\* packed items keep a positive size when the canvas is wider than the gap
PackedPositiveRoomy == ConfigValid /\ canvasWidthPx > Gap => C30_PackedPositive

====
